---- MODULE Spec2Model ----
(***************************************************************************)
(* Model of magenta/models/lookback_rnn/lookback_rnn_encoder_decoder.py:   *)
(* the MelodyEncoderDecoder of the lookback RNN model.                     *)
(*                                                                         *)
(* Python lists are 0-based and TLA+ sequences 1-based: Python's           *)
(* events[k] is Index(events, k).  The floats 0.0, 1.0 and -1.0 of the     *)
(* input vector are the integers 0, 1 and -1.                              *)
(***************************************************************************)
EXTENDS Integers, Sequences, FiniteSets, TLC

(***************************************************************************)
(* Module constants (lines 19-34).                                         *)
(***************************************************************************)
NUM_SPECIAL_EVENTS == 2

NO_EVENT == -2

NOTE_OFF == -1

STEPS_PER_BAR == 16

MIN_NOTE == 48

MAX_NOTE == 84

LOOKBACK_DISTANCES == <<STEPS_PER_BAR, STEPS_PER_BAR * 2>>

NUM_SPECIAL_INPUTS == 7

NUM_SPECIAL_LABELS == Len(LOOKBACK_DISTANCES)

NUM_BINARY_TIME_COUNTERS == 5

(***************************************************************************)
(* Bounds of the model.                                                    *)
(***************************************************************************)
\* Length of the melodies that are encoded.
MaxLen == 34

(***************************************************************************)
(* __init__ and the two properties (lines 45-57).                          *)
(***************************************************************************)
min_note == MIN_NOTE

max_note == MAX_NOTE

num_model_events == max_note - min_note + NUM_SPECIAL_EVENTS

input_size == 3 * num_model_events + NUM_SPECIAL_INPUTS

num_classes == num_model_events + NUM_SPECIAL_LABELS

(***************************************************************************)
(* Python indexing of a list: a negative index counts from the end.        *)
(***************************************************************************)
Index(events, k) ==
  IF k >= 0 THEN events[k + 1] ELSE events[Len(events) + k + 1]

\* enumerate(LOOKBACK_DISTANCES): the distance at the 0-based index i.
lookback_distance(i) == LOOKBACK_DISTANCES[i + 1]

(***************************************************************************)
(* melody_event_to_model_event (lines 59-73).                              *)
(***************************************************************************)
melody_event_to_model_event(melody_event) ==
  IF melody_event < 0
  THEN melody_event + NUM_SPECIAL_EVENTS
  ELSE melody_event - min_note + NUM_SPECIAL_EVENTS

(***************************************************************************)
(* model_event_to_melody_event (lines 75-90).                              *)
(***************************************************************************)
\* Lines 88-90 with "<=" in the test for the special events.
model_event_to_melody_event_le(model_event) ==
  IF model_event <= NUM_SPECIAL_EVENTS
  THEN model_event - NUM_SPECIAL_EVENTS
  ELSE model_event - NUM_SPECIAL_EVENTS + min_note

model_event_to_melody_event(model_event) ==
  IF model_event < NUM_SPECIAL_EVENTS
  THEN model_event - NUM_SPECIAL_EVENTS
  ELSE model_event - NUM_SPECIAL_EVENTS + min_note

(***************************************************************************)
(* events_to_input (lines 92-146), one operator per block of the method,   *)
(* each taking the vector built so far and returning it updated.           *)
(***************************************************************************)
\* Line 118: input_ = [0.0] * self.input_size
ZeroInput == [k \in 0 .. input_size - 1 |-> 0]

\* Lines 120-122, with events[-1] ("the last event") for events[position].
SetCurrentEvent_last(input_, events, position) ==
  [input_ EXCEPT ![melody_event_to_model_event(Index(events, -1))] = 1]

\* Lines 120-122: one-hot of the event at position.
SetCurrentEvent(input_, events, position) ==
  [input_ EXCEPT ![melody_event_to_model_event(Index(events, position))] = 1]

\* Lines 124-132: the for loop over enumerate(LOOKBACK_DISTANCES), from
\* index i on.  Line 132 writes at i * num_model_events + model_event.
RECURSIVE SetLookbackEvents(_, _, _, _)
SetLookbackEvents(input_, events, position, i) ==
  IF i >= Len(LOOKBACK_DISTANCES)
  THEN input_
  ELSE LET lookback_position == position - lookback_distance(i) + 1
           melody_event == IF lookback_position < 0
                           THEN NO_EVENT
                           ELSE Index(events, lookback_position)
           model_event == melody_event_to_model_event(melody_event)
       IN SetLookbackEvents(
            [input_ EXCEPT ![i * num_model_events + model_event] = 1],
            events, position, i + 1)

\* Line 137: the truth value of (n / 2 ** i) % 2.  The file has no
\* "from __future__ import division", so "/" is floor division under
\* Python 2 and true division under Python 3.  Under true division
\* n / 2 ** i is the exact float n / 2^i (n and 2^i are small), and its
\* remainder modulo 2 is zero exactly when n is a multiple of 2^(i+1).
CounterBit(n, i, true_division) ==
  IF true_division
  THEN n % (2 ^ (i + 1)) # 0
  ELSE (n \div (2 ^ i)) % 2 # 0

\* Lines 134-137: the for loop over range(NUM_BINARY_TIME_COUNTERS).
RECURSIVE SetBinaryCounters(_, _, _, _)
SetBinaryCounters(input_, position, i, true_division) ==
  IF i >= NUM_BINARY_TIME_COUNTERS
  THEN input_
  ELSE LET n == position + 1
       IN SetBinaryCounters(
            [input_ EXCEPT ![3 * num_model_events + i] =
               IF CounterBit(n, i, true_division) THEN 1 ELSE -1],
            position, i + 1, true_division)

\* Lines 139-144 with "lookback_position > 0".
RECURSIVE SetRepeatFlags_gt(_, _, _, _)
SetRepeatFlags_gt(input_, events, position, i) ==
  IF i >= Len(LOOKBACK_DISTANCES)
  THEN input_
  ELSE LET lookback_position == position - lookback_distance(i)
       IN SetRepeatFlags_gt(
            IF /\ lookback_position > 0
               /\ Index(events, position) = Index(events, lookback_position)
            THEN [input_ EXCEPT ![3 * num_model_events + 5 + i] = 1]
            ELSE input_,
            events, position, i + 1)

\* Lines 139-144: the second for loop over enumerate(LOOKBACK_DISTANCES).
RECURSIVE SetRepeatFlags(_, _, _, _)
SetRepeatFlags(input_, events, position, i) ==
  IF i >= Len(LOOKBACK_DISTANCES)
  THEN input_
  ELSE LET lookback_position == position - lookback_distance(i)
       IN SetRepeatFlags(
            IF /\ lookback_position >= 0
               /\ Index(events, position) = Index(events, lookback_position)
            THEN [input_ EXCEPT ![3 * num_model_events + 5 + i] = 1]
            ELSE input_,
            events, position, i + 1)

\* events_to_input taking events[-1] as the current event.
events_to_input_last(events, position, true_division) ==
  SetRepeatFlags(
    SetBinaryCounters(
      SetLookbackEvents(
        SetCurrentEvent_last(ZeroInput, events, position),
        events, position, 0),
      position, 0, true_division),
    events, position, 0)

\* events_to_input testing "lookback_position > 0" for the repeat flags.
events_to_input_gt(events, position, true_division) ==
  SetRepeatFlags_gt(
    SetBinaryCounters(
      SetLookbackEvents(
        SetCurrentEvent(ZeroInput, events, position),
        events, position, 0),
      position, 0, true_division),
    events, position, 0)

events_to_input(events, position, true_division) ==
  SetRepeatFlags(
    SetBinaryCounters(
      SetLookbackEvents(
        SetCurrentEvent(ZeroInput, events, position),
        events, position, 0),
      position, 0, true_division),
    events, position, 0)

(***************************************************************************)
(* events_to_label (lines 148-186).                                        *)
(***************************************************************************)
\* Lines 177-186 scanning the distances in ascending order.
RECURSIVE RepeatLabel_ascending(_, _, _)
RepeatLabel_ascending(events, position, i) ==
  IF i >= Len(LOOKBACK_DISTANCES)
  THEN melody_event_to_model_event(Index(events, position))
  ELSE LET lookback_position == position - lookback_distance(i)
       IN IF /\ lookback_position >= 0
             /\ Index(events, position) = Index(events, lookback_position)
          THEN num_model_events + i
          ELSE RepeatLabel_ascending(events, position, i + 1)

\* Lines 177-186: the for loop over reversed(list(enumerate(...))), from
\* index i downwards, then the label of the event itself.
RECURSIVE RepeatLabel(_, _, _)
RepeatLabel(events, position, i) ==
  IF i < 0
  THEN melody_event_to_model_event(Index(events, position))
  ELSE LET lookback_position == position - lookback_distance(i)
       IN IF /\ lookback_position >= 0
             /\ Index(events, position) = Index(events, lookback_position)
          THEN num_model_events + i
          ELSE RepeatLabel(events, position, i - 1)

\* Lines 173-186 with LOOKBACK_DISTANCES[0] in the start-of-melody test.
events_to_label_first(events, position) ==
  IF /\ position < Index(LOOKBACK_DISTANCES, 0)
     /\ Index(events, position) = NO_EVENT
  THEN num_model_events + Len(LOOKBACK_DISTANCES) - 1
  ELSE RepeatLabel(events, position, Len(LOOKBACK_DISTANCES) - 1)

\* Lines 173-186 with the distances scanned nearest first.
events_to_label_ascending(events, position) ==
  IF /\ position < Index(LOOKBACK_DISTANCES, -1)
     /\ Index(events, position) = NO_EVENT
  THEN num_model_events + Len(LOOKBACK_DISTANCES) - 1
  ELSE RepeatLabel_ascending(events, position, 0)

events_to_label(events, position) ==
  IF /\ position < Index(LOOKBACK_DISTANCES, -1)
     /\ Index(events, position) = NO_EVENT
  THEN num_model_events + Len(LOOKBACK_DISTANCES) - 1
  ELSE RepeatLabel(events, position, Len(LOOKBACK_DISTANCES) - 1)

(***************************************************************************)
(* class_index_to_event (lines 188-209).                                   *)
(***************************************************************************)
\* Lines 202-209 with "<=" in the test of the history's length.
RECURSIVE RepeatEvent_le(_, _, _)
RepeatEvent_le(class_index, events, i) ==
  IF i < 0
  THEN model_event_to_melody_event(class_index)
  ELSE IF class_index = num_model_events + i
       THEN IF Len(events) <= lookback_distance(i)
            THEN NO_EVENT
            ELSE Index(events, -lookback_distance(i))
       ELSE RepeatEvent_le(class_index, events, i - 1)

\* Lines 202-209: the for loop over reversed(list(enumerate(...))), from
\* index i downwards, then the event of the class index itself.
RECURSIVE RepeatEvent(_, _, _)
RepeatEvent(class_index, events, i) ==
  IF i < 0
  THEN model_event_to_melody_event(class_index)
  ELSE IF class_index = num_model_events + i
       THEN IF Len(events) < lookback_distance(i)
            THEN NO_EVENT
            ELSE Index(events, -lookback_distance(i))
       ELSE RepeatEvent(class_index, events, i - 1)

\* Lines 202-209 with events[-lookback_distance + 1].
RECURSIVE RepeatEvent_next(_, _, _)
RepeatEvent_next(class_index, events, i) ==
  IF i < 0
  THEN model_event_to_melody_event(class_index)
  ELSE IF class_index = num_model_events + i
       THEN IF Len(events) < lookback_distance(i)
            THEN NO_EVENT
            ELSE Index(events, -lookback_distance(i) + 1)
       ELSE RepeatEvent_next(class_index, events, i - 1)

\* class_index_to_event returning the event one step after the repeated one.
class_index_to_event_next(class_index, events) ==
  RepeatEvent_next(class_index, events, Len(LOOKBACK_DISTANCES) - 1)

\* class_index_to_event with "<=" in the test of the history's length.
class_index_to_event_le(class_index, events) ==
  RepeatEvent_le(class_index, events, Len(LOOKBACK_DISTANCES) - 1)

\* class_index_to_event returning the class index itself on line 209.
class_index_to_event_raw(class_index, events) ==
  IF class_index >= num_model_events
  THEN RepeatEvent(class_index, events, Len(LOOKBACK_DISTANCES) - 1)
  ELSE class_index

class_index_to_event(class_index, events) ==
  RepeatEvent(class_index, events, Len(LOOKBACK_DISTANCES) - 1)

(***************************************************************************)
(* The inputs: melodies of valid events (docstring, lines 63-64).          *)
(***************************************************************************)
\* Every valid melody event: the two special events and the note range.
ValidEvents == {NO_EVENT, NOTE_OFF} \cup (MIN_NOTE .. MAX_NOTE - 1)

\* The events the melodies are made of.
MelodyEvents == {NO_EVENT, NOTE_OFF, MIN_NOTE, MAX_NOTE - 1}

\* A melody of MaxLen steps: the first step of each bar carries its own
\* event (first[b] in bar b), every other step the event rest.
Melody(first, rest) ==
  [k \in 1 .. MaxLen |->
     IF (k - 1) % STEPS_PER_BAR = 0
     THEN first[((k - 1) \div STEPS_PER_BAR) + 1]
     ELSE rest]

NumBars == ((MaxLen - 1) \div STEPS_PER_BAR) + 1

Melodies ==
  {Melody(first, rest) :
     first \in [1 .. NumBars -> MelodyEvents], rest \in MelodyEvents}

\* The class indices class_index_to_event is called with on its own.
ClassIndices == {0, num_model_events - 1} \cup
                (num_model_events .. num_classes - 1)

\* Python's events[:n].
Prefix(events, n) == SubSeq(events, 1, n)

\* The melodies agree on the positions 0 .. position.
AgreeUpTo(a, b, position) ==
  /\ Len(a) > position
  /\ Len(b) > position
  /\ \A k \in 1 .. position + 1 : a[k] = b[k]

(***************************************************************************)
(* State.                                                                  *)
(***************************************************************************)
VARIABLES
  true_division,  \* the interpreter's "/" on ints: TRUE = true division
  events,         \* the melody handed to the encoder
  pc,             \* what the caller did last
  position,       \* the position argument of the last encoder call
  input_,         \* result of events_to_input(events, position)
  label,          \* result of events_to_label(events, position)
  other,          \* a second melody, encoded at the same position
  input_other,    \* result of events_to_input(other, position)
  label_other,    \* result of events_to_label(other, position)
  class_index,    \* the class_index argument of class_index_to_event
  history,        \* the events argument of class_index_to_event
  melody_event,   \* the argument of melody_event_to_model_event
  model_event,    \* result of melody_event_to_model_event(melody_event)
  decoded_event   \* the melody event a decoding call returned

vars == <<true_division, events, pc, position, input_, label, other,
          input_other, label_other, class_index, history, melody_event,
          model_event, decoded_event>>

\* Value of a result that has not been computed.
None == "None"

Init ==
  /\ true_division \in BOOLEAN
  /\ events \in Melodies
  /\ pc = "ready"
  /\ position = 0
  /\ input_ = None
  /\ label = None
  /\ other = None
  /\ input_other = None
  /\ label_other = None
  /\ class_index = None
  /\ history = <<>>
  /\ melody_event = None
  /\ model_event = None
  /\ decoded_event = None

(***************************************************************************)
(* Calls of the four conversions on their own.                             *)
(***************************************************************************)
MelodyEventToModelEvent(e) ==
  /\ pc = "ready"
  /\ melody_event' = e
  /\ model_event' = melody_event_to_model_event(e)
  /\ pc' = "model_event"
  /\ UNCHANGED <<true_division, events, position, input_, label, other,
                 input_other, label_other, class_index, history,
                 decoded_event>>

\* The model event just computed is converted back.
ModelEventToMelodyEvent ==
  /\ pc = "model_event"
  /\ decoded_event' = model_event_to_melody_event(model_event)
  /\ pc' = "melody_event"
  /\ UNCHANGED <<true_division, events, position, input_, label, other,
                 input_other, label_other, class_index, history, model_event,
                 melody_event>>

EventsToInput(p) ==
  /\ pc = "ready"
  /\ position' = p
  /\ input_' = events_to_input(events, p, true_division)
  /\ pc' = "input"
  /\ UNCHANGED <<true_division, events, label, other, input_other,
                 label_other, class_index, history, melody_event, model_event,
                 decoded_event>>

EventsToLabel(p) ==
  /\ pc = "ready"
  /\ position' = p
  /\ label' = events_to_label(events, p)
  /\ pc' = "label"
  /\ UNCHANGED <<true_division, events, input_, other, input_other,
                 label_other, class_index, history, melody_event, model_event,
                 decoded_event>>

\* class_index_to_event(c, events[:n]).
ClassIndexToEvent(c, n) ==
  /\ pc = "ready"
  /\ class_index' = c
  /\ history' = Prefix(events, n)
  /\ decoded_event' = class_index_to_event(c, history')
  /\ pc' = "event"
  /\ UNCHANGED <<true_division, events, position, input_, label, other,
                 input_other, label_other, model_event,
                 melody_event>>

\* The label just computed is decoded against the prefix events[:n].
LabelToEvent(n) ==
  /\ pc = "label"
  /\ class_index' = label
  /\ history' = Prefix(events, n)
  /\ decoded_event' = class_index_to_event(label, history')
  /\ pc' = "label_event"
  /\ UNCHANGED <<true_division, events, position, input_, label, other,
                 input_other, label_other, model_event,
                 melody_event>>

(***************************************************************************)
(* The same position encoded in a second melody: the first n events of     *)
(* events followed by tail.                                                *)
(***************************************************************************)
EventsToInputOther(n, tail) ==
  /\ pc = "input"
  /\ other' = Prefix(events, n) \o tail
  /\ position < Len(other')
  /\ input_other' = events_to_input(other', position, true_division)
  /\ pc' = "input_other"
  /\ UNCHANGED <<true_division, events, position, input_, label,
                 label_other, class_index, history, melody_event, model_event,
                 decoded_event>>

EventsToLabelOther(n, tail) ==
  /\ pc = "label"
  /\ other' = Prefix(events, n) \o tail
  /\ position < Len(other')
  /\ label_other' = events_to_label(other', position)
  /\ pc' = "label_other"
  /\ UNCHANGED <<true_division, events, position, input_, label,
                 input_other, class_index, history, melody_event, model_event,
                 decoded_event>>

(***************************************************************************)
(* Teacher-forced regeneration: the caller labels position len(history)    *)
(* of the melody and decodes the label against the history.                *)
(***************************************************************************)
GenerateLabel ==
  /\ pc \in {"ready", "generated"}
  /\ Len(history) < Len(events)
  /\ position' = Len(history)
  /\ label' = events_to_label(events, position')
  /\ pc' = "generating"
  /\ UNCHANGED <<true_division, events, input_, other, input_other,
                 label_other, class_index, history, melody_event, model_event,
                 decoded_event>>

GenerateEvent ==
  /\ pc = "generating"
  /\ class_index' = label
  /\ decoded_event' = class_index_to_event(label, history)
  /\ history' = Append(history, decoded_event')
  /\ pc' = "generated"
  /\ UNCHANGED <<true_division, events, position, input_, label, other,
                 input_other, label_other, model_event,
                 melody_event>>

\* The tails a second melody ends with.
Tails == {<<>>} \cup {<<e>> : e \in MelodyEvents}

Next ==
  \/ \E e \in ValidEvents : MelodyEventToModelEvent(e)
  \/ ModelEventToMelodyEvent
  \/ \E p \in 0 .. Len(events) - 1 : EventsToInput(p)
  \/ \E p \in 0 .. Len(events) - 1 : EventsToLabel(p)
  \/ \E c \in ClassIndices, n \in 0 .. Len(events) : ClassIndexToEvent(c, n)
  \/ \E n \in {0, position, position + 1} : LabelToEvent(n)
  \/ \E n \in {position, position + 1}, tail \in Tails :
        EventsToInputOther(n, tail)
  \/ \E n \in {position, position + 1}, tail \in Tails :
        EventsToLabelOther(n, tail)
  \/ GenerateLabel
  \/ GenerateEvent

Spec == Init /\ [][Next]_vars

TypeOK ==
  /\ true_division \in BOOLEAN
  /\ events \in Melodies
  /\ position \in 0 .. Len(events) - 1
  /\ pc \in {"input", "input_other"} =>
       input_ \in [0 .. input_size - 1 -> {-1, 0, 1}]
  /\ pc \in {"label", "label_other", "label_event", "generating", "generated"} =>
       label \in 0 .. num_classes - 1
  /\ pc \in {"event", "label_event", "melody_event", "generated"} =>
       decoded_event \in ValidEvents

(***************************************************************************)
(* Properties.  In the formulas a melody is indexed as a TLA+ sequence:    *)
(* the event at the 0-based position k is events[k + 1].                   *)
(***************************************************************************)
\* The event at position matches the one lookback_distance(i) steps before.
Repeats(i) ==
  /\ position - lookback_distance(i) >= 0
  /\ events[position + 1] = events[position - lookback_distance(i) + 1]

\* The start-of-melody case of events_to_label.
StartOfMelody ==
  /\ position < 2 * STEPS_PER_BAR
  /\ events[position + 1] = NO_EVENT

\* C1: after events_to_input, for each lookback distance with index i the
\* entry (i+1)*num_model_events + model event of the candidate next event
\* (the event at position - d + 1, or no-event before the melody's start)
\* is 1, so that the 1-bar candidate is in [38, 76) and the 2-bar one in
\* [76, 114), and neither is in the current-event block [0, 38).
C1_LookbackBlocks ==
  pc = "input" =>
    \A i \in 0 .. 1 :
      LET d == IF i = 0 THEN 16 ELSE 32
          c == IF position - d + 1 >= 0
               THEN events[position - d + 2]
               ELSE NO_EVENT
          m == IF c < 0 THEN c + 2 ELSE c - MIN_NOTE + 2
      IN /\ input_[(i + 1) * num_model_events + m] = 1
         /\ \A k \in 0 .. num_model_events - 1 :
              input_[k] = 1 => k = melody_event_to_model_event(events[position + 1])

\* C2: at a position >= 32 whose event equals both the event 16 and the
\* event 32 steps before, events_to_label returns 39 and not 38; outside
\* the start-of-melody case the label is the repeat class of the largest
\* matching distance, and 38 is returned only if the 2-bar distance does
\* not match or the position is below 32.
C2_MostDistantRepeatWins ==
  pc = "label" =>
    /\ (/\ position >= 32
        /\ events[position + 1] = events[position - 16 + 1]
        /\ events[position + 1] = events[position - 32 + 1])
         => (label = num_model_events + 1 /\ label # num_model_events)
    /\ ~StartOfMelody =>
         /\ \A i \in 0 .. 1 :
              (Repeats(i) /\ \A j \in (i + 1) .. 1 : ~Repeats(j))
                => label = num_model_events + i
         /\ label = num_model_events =>
              (position < 32 \/ events[position + 1] # events[position - 32 + 1])

C2_Witness ==
  /\ pc = "label"
  /\ position >= 32
  /\ events[position + 1] = events[position - 16 + 1]
  /\ events[position + 1] = events[position - 32 + 1]
  /\ events[position + 1] # NO_EVENT
  /\ label = 39

\* C3: at a position < 32 holding the no-event sentinel, events_to_label
\* returns num_model_events + len(LOOKBACK_DISTANCES) - 1 = 39, whatever
\* the other events are, also when the event 16 steps before matches.
C3_StartOfMelodyLabel ==
  (pc = "label" /\ position < 32 /\ events[position + 1] = NO_EVENT)
    => (label = num_model_events + Len(LOOKBACK_DISTANCES) - 1 /\ label = 39)

C3_Witness ==
  /\ pc = "label"
  /\ position >= 16
  /\ position < 32
  /\ events[position + 1] = NO_EVENT
  /\ events[position - 16 + 1] = NO_EVENT
  /\ label = 39

\* C4: for a valid melody event e, melody_event_to_model_event(e) is in
\* [0, num_model_events), no-event -> 0, note-off -> 1 and a pitch p ->
\* p - min_note + 2, and model_event_to_melody_event gives e back.
C4_EventRoundTrip ==
  /\ pc \in {"model_event", "melody_event"} =>
       /\ model_event \in 0 .. num_model_events - 1
       /\ melody_event = NO_EVENT => model_event = 0
       /\ melody_event = NOTE_OFF => model_event = 1
       /\ melody_event >= 0 => model_event = melody_event - 48 + 2
  /\ pc = "melody_event" => decoded_event = melody_event

C4_Witness ==
  /\ pc = "melody_event"
  /\ melody_event = MIN_NOTE
  /\ model_event = 2
  /\ decoded_event = MIN_NOTE

\* C5: when events_to_label returned through its last branch (a label
\* below num_model_events), class_index_to_event of that label and a
\* prefix of the melody returns the event at the labelled position.
C5_LiteralRoundTrip ==
  (pc = "label_event" /\ label < num_model_events)
    => decoded_event = events[position + 1]

C5_Witness ==
  /\ pc = "label_event"
  /\ label < num_model_events
  /\ label >= NUM_SPECIAL_EVENTS
  /\ Len(history) = position + 1
  /\ decoded_event = events[position + 1]

\* C6: class_index_to_event of the repeat class num_model_events + i of
\* distance d and a history h returns h[len(h) - d] when len(h) >= d and
\* the no-event sentinel when len(h) < d; with h the first pos events of
\* the melody and pos >= d that is the event at position pos - d.
C6_RepeatDecoding ==
  pc = "event" =>
    \A i \in 0 .. 1 :
      class_index = num_model_events + i =>
        LET d == IF i = 0 THEN 16 ELSE 32
            n == Len(history)
        IN /\ n >= d => decoded_event = history[n - d + 1]
           /\ n >= d => decoded_event = events[n - d + 1]
           /\ n < d => decoded_event = NO_EVENT

C6_Witness ==
  /\ pc = "event"
  /\ class_index = num_model_events + 1
  /\ Len(history) = 33
  /\ events[2] # events[1]
  /\ events[2] # NO_EVENT
  /\ decoded_event = events[2]

\* C7: after events_to_input, for k in 0..4 the entry 3*num_model_events + k
\* is +1 if bit k of position + 1 is set and -1 otherwise.
C7_BinaryCounters ==
  pc = "input" =>
    \A k \in 0 .. 4 :
      input_[3 * num_model_events + k] =
        IF ((position + 1) \div (2 ^ k)) % 2 = 1 THEN 1 ELSE -1

\* C8: after events_to_input, for each lookback distance d with index i
\* the entry 3*num_model_events + 5 + i is 1 if position - d >= 0 and the
\* events at position and position - d are equal, and 0 otherwise; the
\* two flags are independent of each other.
C8_RepeatFlags ==
  pc = "input" =>
    \A i \in 0 .. 1 :
      LET d == IF i = 0 THEN 16 ELSE 32
      IN input_[3 * num_model_events + 5 + i] =
           IF /\ position - d >= 0
              /\ events[position + 1] = events[position - d + 1]
           THEN 1
           ELSE 0

C8_Witness ==
  /\ pc = "input"
  /\ position = 32
  /\ events[33] = events[17]
  /\ events[33] = events[1]
  /\ events[33] # events[2]
  /\ input_[119] = 1
  /\ input_[120] = 1

\* C9: two melodies that agree on the positions 0..position get the same
\* input vector and the same label at that position, whatever their
\* lengths and their events after position.
C9_PrefixDeterminism ==
  /\ (pc = "input_other" /\ AgreeUpTo(events, other, position))
       => input_other = input_
  /\ (pc = "label_other" /\ AgreeUpTo(events, other, position))
       => label_other = label

C9_Witness ==
  /\ pc = "input_other"
  /\ AgreeUpTo(events, other, position)
  /\ Len(other) = position + 2
  /\ Len(events) > position + 2
  /\ other[position + 2] # events[position + 2]
  /\ input_other = input_

\* C10: in the teacher-forced regeneration the history after the step of
\* position pos is the melody's events 0..pos, in every branch of the
\* label, and every label is in [0, num_classes).
C10_Regeneration ==
  pc \in {"generating", "generated"} =>
    /\ label \in 0 .. num_classes - 1
    /\ Len(history) <= Len(events)
    /\ \A k \in 1 .. Len(history) : history[k] = events[k]
    /\ pc = "generated" => Len(history) = position + 1

\* A melody regenerated in full whose labels took the three branches: the
\* start-of-melody case at 0, the event itself at 16, a repeat at 32.
C10_Witness ==
  /\ pc = "generated"
  /\ history = events
  /\ events[1] = NO_EVENT
  /\ events[17] = MIN_NOTE
  /\ events[33] = MIN_NOTE
  /\ events[2] = NOTE_OFF

====
